---- MODULE Spec2Model ----
(***************************************************************************)
(* Model of the CDK application of this repository:                        *)
(*   bin/database.ts        the app: VpcStack, then DatabaseStack, tags    *)
(*   lib/vpc-stack.ts       one VPC, three subnet tiers per zone           *)
(*   lib/database-stack.ts  security groups, secrets, Aurora cluster,      *)
(*                          secret rotations, IAM role, client instance    *)
(*                                                                         *)
(* The state machine runs the app (construct tree), deploys it resource by *)
(* resource in an order that respects the declared references, and then    *)
(* lets the provider-side operations the declaration configures happen:    *)
(* secret rotations, role assumption and access checks, delete attempts.   *)
(* The provisioning library (aws-cdk-lib) and the provider are modelled by *)
(* their documented behaviour, driven by the values the source passes.     *)
(***************************************************************************)
EXTENDS Integers, Sequences, FiniteSets, TLC

(***************************************************************************)
(* State.                                                                  *)
(***************************************************************************)
VARIABLES
  pc,           \* where the app run and its deployment stand
  app,          \* the construct tree of the current run: id -> props
  bootFile,     \* the boot script file on disk
  cloud,        \* what is provisioned: id -> props as last deployed
  changeSet,    \* the units the running deployment still has to provision
  secretValue,  \* the current value of each provisioned secret
  rotated,      \* the rotation jobs that have completed at least once
  destroyed,    \* the units a destructive call has removed
  lastOp        \* the last provider-side request and its outcome

vars == <<pc, app, bootFile, cloud, changeSet, secretValue, rotated, destroyed, lastOp>>

(***************************************************************************)
(* Bounds of the model.                                                    *)
(***************************************************************************)
\* Length of a generated password in the model (the source asks for 32,
\* database-stack.ts line 70; the generator is the same at every length).
PwLen == 1

(***************************************************************************)
(* Helpers.                                                                *)
(***************************************************************************)
Range(s) == {s[i] : i \in DOMAIN s}

Min(a, b) == IF a < b THEN a ELSE b

RECURSIVE Pow2(_)
Pow2(n) == IF n = 0 THEN 1 ELSE 2 * Pow2(n - 1)

(***************************************************************************)
(* lib/vpc-stack.ts                                                        *)
(***************************************************************************)
\* cidr: "10.10.0.0/24"
VpcCidr == [ip |-> <<10, 10, 0, 0>>, mask |-> 24]

\* maxAzs: 2
MaxAzs == 2

\* natGateways: 1
NatGateways == 1

\* Mutant of SubnetCidrMask: /26 subnets, six of which do not fit in a /24.
SubnetCidrMask_26 == 24 + 2

\* cidrMask: 28 (the same in the three subnetConfiguration entries)
SubnetCidrMask == 28

\* subnetConfiguration: [Public, Private, Isolate]
SubnetConfiguration ==
  << [name |-> "Public",  subnetType |-> "PUBLIC",           cidrMask |-> SubnetCidrMask],
     [name |-> "Private", subnetType |-> "PRIVATE_WITH_NAT", cidrMask |-> SubnetCidrMask],
     [name |-> "Isolate", subnetType |-> "PRIVATE_ISOLATED", cidrMask |-> SubnetCidrMask] >>

\* The stacks are created without an env (bin/database.ts passes only
\* terminationProtection), so they are environment-agnostic and the library
\* offers exactly two zones, the first two of the region.
StackAvailabilityZones == <<"az1", "az2">>

\* The zones the VPC spans: at most maxAzs of the stack's zones.
VpcAvailabilityZones ==
  SubSeq(StackAvailabilityZones, 1, Min(MaxAzs, Len(StackAvailabilityZones)))

IpToNum(ip) == ((ip[1] * 256 + ip[2]) * 256 + ip[3]) * 256 + ip[4]

NetSize(mask) == Pow2(32 - mask)

\* First address of the block of size /mask at or after address a.
AlignUp(a, mask) ==
  IF (a % NetSize(mask)) = 0 THEN a ELSE a + (NetSize(mask) - (a % NetSize(mask)))

CidrMinIp(c) == IpToNum(c.ip) - (IpToNum(c.ip) % NetSize(c.mask))

CidrMaxIp(c) == CidrMinIp(c) + NetSize(c.mask) - 1

\* How a subnet of a tier reaches the internet: public subnets route to the
\* internet gateway, PRIVATE_WITH_NAT subnets to a NAT gateway (outbound
\* only), PRIVATE_ISOLATED subnets have no route out of the VPC.
SubnetRoute(subnetType) ==
  CASE subnetType = "PUBLIC" -> "igw"
    [] subnetType = "PRIVATE_WITH_NAT" -> IF NatGateways > 0 THEN "nat" ELSE "none"
    [] OTHER -> "none"

\* The subnets requested, in the order the library allocates them: for each
\* subnetConfiguration entry in turn, one subnet per zone.
SubnetRequests ==
  LET nAz == Len(VpcAvailabilityZones)
  IN [k \in 1..(Len(SubnetConfiguration) * nAz) |->
        LET cfg == SubnetConfiguration[((k - 1) \div nAz) + 1]
            azi == ((k - 1) % nAz) + 1
        IN [name |-> cfg.name, subnetType |-> cfg.subnetType,
            cidrMask |-> cfg.cidrMask, azIndex |-> azi,
            availabilityZone |-> VpcAvailabilityZones[azi]]]

\* One allocation of the network builder: the request fails when the block
\* would end past the VPC's last address; otherwise the subnet takes the next
\* aligned block and the builder advances past it.
AddSubnet(nb, req) ==
  IF nb.failed \/ CidrMaxIp(VpcCidr) < nb.nextAvailableIp + NetSize(req.cidrMask) - 1
  THEN [nb EXCEPT !.failed = TRUE]
  ELSE LET start == AlignUp(nb.nextAvailableIp, req.cidrMask)
       IN [nb EXCEPT
             !.nextAvailableIp = start + NetSize(req.cidrMask),
             !.subnets = Append(@,
                [name |-> req.name, subnetType |-> req.subnetType,
                 availabilityZone |-> req.availabilityZone,
                 cidrStart |-> start, cidrMask |-> req.cidrMask,
                 route |-> SubnetRoute(req.subnetType)])]

RECURSIVE AllocateSubnets(_, _)
AllocateSubnets(nb, k) ==
  IF k > Len(SubnetRequests) THEN nb
  ELSE AllocateSubnets(AddSubnet(nb, SubnetRequests[k]), k + 1)

\* new ec2.Vpc(this, "Vpc", {...}): the construct, or a failed construction
\* when the subnets do not fit.
NewVpc ==
  LET nb == AllocateSubnets([nextAvailableIp |-> CidrMinIp(VpcCidr),
                             subnets |-> <<>>, failed |-> FALSE], 1)
  IN [type |-> "AWS::EC2::VPC", failed |-> nb.failed, cidr |-> VpcCidr,
      enableDnsHostnames |-> TRUE, enableDnsSupport |-> TRUE,
      natGateways |-> NatGateways, subnets |-> nb.subnets]

\* retainOnePerAz: keep the first subnet of each zone.
RECURSIVE RetainOnePerAz(_, _)
RetainOnePerAz(subnets, azsSeen) ==
  IF subnets = <<>> THEN <<>>
  ELSE IF Head(subnets).availabilityZone \in azsSeen
       THEN RetainOnePerAz(Tail(subnets), azsSeen)
       ELSE <<Head(subnets)>> \o
            RetainOnePerAz(Tail(subnets), azsSeen \cup {Head(subnets).availabilityZone})

\* vpc.selectSubnets({subnetType, onePerAz}): the subnets of the tier, in
\* allocation order, thinned to one per zone when asked.
SelectSubnets(vpc, selection) ==
  LET ofType == SelectSeq(vpc.subnets, LAMBDA s : s.subnetType = selection.subnetType)
  IN IF selection.onePerAz THEN RetainOnePerAz(ofType, {}) ELSE ofType

(***************************************************************************)
(* lib/database-stack.ts                                                   *)
(***************************************************************************)
\* const EXCLUDE_CHARACTERS = ":@/\" '", one entry per character.
EXCLUDE_CHARACTERS == <<":", "@", "/", "\"", " ", "'">>

\* The characters a password is drawn from in the model: the six excluded
\* ones and two that are not excluded.
Alphabet == Range(EXCLUDE_CHARACTERS) \cup {"a", "1"}

SgPeer(sg) == [kind |-> "securityGroup", id |-> sg]

AnyIpv4Peer == [kind |-> "cidr", id |-> "0.0.0.0/0"]

\* new ec2.SecurityGroup(this, "DbClientSg", {...})
DbClientSg ==
  [type |-> "AWS::EC2::SecurityGroup", vpc |-> "Vpc",
   securityGroupName |-> "prd-db-client-sg", allowAllOutbound |-> TRUE,
   ingress |-> {}]

\* new ec2.SecurityGroup(this, "RotateSecretsLambdaFunctionSg", {...})
RotateSecretsLambdaFunctionSg ==
  [type |-> "AWS::EC2::SecurityGroup", vpc |-> "Vpc",
   securityGroupName |-> "prd-rotate-secrets-lambda-sg", allowAllOutbound |-> TRUE,
   ingress |-> {}]

\* Mutant of DbSgIngressRules: the client rule is opened to any address.
DbSgIngressRules_AnyIpv4 ==
  { [peer |-> SgPeer("RotateSecretsLambdaFunctionSg"), protocol |-> "tcp", port |-> 5432],
    [peer |-> AnyIpv4Peer, protocol |-> "tcp", port |-> 5432] }

\* The two dbSg.addIngressRule(...) calls.
DbSgIngressRules ==
  { [peer |-> SgPeer("RotateSecretsLambdaFunctionSg"), protocol |-> "tcp", port |-> 5432],
    [peer |-> SgPeer("DbClientSg"), protocol |-> "tcp", port |-> 5432] }

\* new ec2.SecurityGroup(this, "DbSg", {...}) with its two ingress rules.
DbSg ==
  [type |-> "AWS::EC2::SecurityGroup", vpc |-> "Vpc",
   securityGroupName |-> "prd-db-sg", allowAllOutbound |-> TRUE,
   ingress |-> DbSgIngressRules]

\* new secretsmanager.Secret(this, "DbAdminSecret", {generateSecretString})
DbAdminSecret ==
  [type |-> "AWS::SecretsManager::Secret",
   secretName |-> "prd-db-cluster/AdminLoginInfo", generate |-> TRUE,
   excludeCharacters |-> EXCLUDE_CHARACTERS, generateStringKey |-> "password",
   passwordLength |-> 32, requireEachIncludedType |-> TRUE,
   username |-> "postgresAdmin", password |-> <<>>]

\* "rotationPasswordUser_password", one entry per character.
BootstrapPassword ==
  <<"r","o","t","a","t","i","o","n","P","a","s","s","w","o","r","d",
    "U","s","e","r","_","p","a","s","s","w","o","r","d">>

\* Mutant of DbRotationPasswordUserSecret: the declaration takes the password
\* from the secret's current value when there is one.
DbRotationPasswordUserSecret_Live ==
  [type |-> "AWS::SecretsManager::Secret",
   secretName |-> "prd-db-cluster/rotationPasswordUserLoginInfo", generate |-> FALSE,
   excludeCharacters |-> <<>>, generateStringKey |-> "",
   requireEachIncludedType |-> FALSE,
   username |-> "rotationPasswordUser",
   password |-> IF "DbRotationPasswordUserSecret" \in DOMAIN secretValue
                THEN secretValue["DbRotationPasswordUserSecret"].password
                ELSE BootstrapPassword]

\* new secretsmanager.Secret(this, "DbRotationPasswordUserSecret",
\*   {secretStringBeta1: fromUnsafePlaintext(...)})
DbRotationPasswordUserSecret ==
  [type |-> "AWS::SecretsManager::Secret",
   secretName |-> "prd-db-cluster/rotationPasswordUserLoginInfo", generate |-> FALSE,
   excludeCharacters |-> <<>>, generateStringKey |-> "",
   requireEachIncludedType |-> FALSE,
   username |-> "rotationPasswordUser", password |-> BootstrapPassword]

\* new rds.ParameterGroup(this, "DbClusterParameterGroup", {...})
DbClusterParameterGroup ==
  [type |-> "AWS::RDS::DBClusterParameterGroup", engine |-> "aurora-postgresql",
   engineVersion |-> "13.4", description |-> "aurora-postgresql13",
   parameters |-> [pgaudit_log |-> "all", pgaudit_role |-> "rds_pgaudit",
                   shared_preload_libraries |-> "pgaudit", timezone |-> "Asia/Tokyo"]]

\* new rds.ParameterGroup(this, "DbParameterGroup", {...})
DbParameterGroup ==
  [type |-> "AWS::RDS::DBParameterGroup", engine |-> "aurora-postgresql",
   engineVersion |-> "13.4", description |-> "aurora-postgresql13"]

\* Mutant of SubnetGroupSelection: the group is taken from the NAT tier.
SubnetGroupSelection_WithNat == [onePerAz |-> TRUE, subnetType |-> "PRIVATE_WITH_NAT"]

\* props.vpc.selectSubnets({onePerAz: true, subnetType: PRIVATE_ISOLATED})
SubnetGroupSelection == [onePerAz |-> TRUE, subnetType |-> "PRIVATE_ISOLATED"]

\* new rds.SubnetGroup(this, "SubnetGroup", {...})
SubnetGroup(vpc) ==
  [type |-> "AWS::RDS::DBSubnetGroup", vpc |-> "Vpc",
   subnetGroupName |-> "SubnetGroup", description |-> "description",
   vpcSubnets |-> SelectSubnets(vpc, SubnetGroupSelection)]

\* deletionProtection: true
DbClusterDeletionProtection == TRUE

\* The port the engine listens on when the cluster is given none:
\* auroraPostgres clusters use the PostgreSQL port.
EngineDefaultPort(engine) == IF engine = "aurora-postgresql" THEN 5432 ELSE 3306

\* new rds.DatabaseCluster(this, "DbCluster", {...})
DbCluster ==
  [type |-> "AWS::RDS::DBCluster", engine |-> "aurora-postgresql",
   engineVersion |-> "13.4", vpc |-> "Vpc",
   allowMajorVersionUpgrade |-> FALSE, autoMinorVersionUpgrade |-> TRUE,
   deleteAutomatedBackups |-> FALSE, enablePerformanceInsights |-> TRUE,
   instanceType |-> "t3.medium", instanceParameterGroup |-> "DbParameterGroup",
   publiclyAccessible |-> FALSE, securityGroups |-> <<"DbSg">>,
   backupRetentionDays |-> 7, preferredBackupWindow |-> "16:00-16:30",
   cloudwatchLogsExports |-> <<"postgresql">>, cloudwatchLogsRetentionDays |-> 365,
   clusterIdentifier |-> "prd-db-cluster", copyTagsToSnapshot |-> TRUE,
   credentials |-> "DbAdminSecret", defaultDatabaseName |-> "testDB",
   deletionProtection |-> DbClusterDeletionProtection, iamAuthentication |-> FALSE,
   instanceIdentifierBase |-> "prd-db-instance", instances |-> 1,
   monitoringIntervalMinutes |-> 1, parameterGroup |-> "DbClusterParameterGroup",
   preferredMaintenanceWindow |-> "Sat:17:00-Sat:17:30", storageEncrypted |-> TRUE,
   subnetGroup |-> "SubnetGroup", port |-> EngineDefaultPort("aurora-postgresql")]

\* Mutant of RotationSubnetSelection: the rotation functions are put in the
\* public tier.
RotationSubnetSelection_Public == [onePerAz |-> FALSE, subnetType |-> "PUBLIC"]

\* props.vpc.selectSubnets({subnetType: PRIVATE_WITH_NAT}), the same in both
\* SecretRotation constructs.
RotationSubnetSelection == [onePerAz |-> FALSE, subnetType |-> "PRIVATE_WITH_NAT"]

\* Mutant of RotationExcludeCharacters: the rotations forget the exclusions.
RotationExcludeCharacters_None == <<>>

\* excludeCharacters: EXCLUDE_CHARACTERS, the same in both SecretRotation
\* constructs.
RotationExcludeCharacters == EXCLUDE_CHARACTERS

\* Mutant of DbAdminSecretRotationMultiUser: secret and masterSecret are
\* swapped, so the multi-user job rotates the rotation user's secret.
DbAdminSecretRotationMultiUser_Swapped(vpc) ==
  [type |-> "AWS::SecretsManager::RotationSchedule",
   application |-> "POSTGRES_ROTATION_MULTI_USER",
   secret |-> "DbRotationPasswordUserSecret", target |-> "DbCluster", vpc |-> "Vpc",
   automaticallyAfterDays |-> 3, excludeCharacters |-> RotationExcludeCharacters,
   masterSecret |-> "DbAdminSecret",
   securityGroup |-> "RotateSecretsLambdaFunctionSg",
   vpcSubnets |-> SelectSubnets(vpc, RotationSubnetSelection)]

\* new secretsmanager.SecretRotation(this, "DbAdminSecretRotationMultiUser", {...})
DbAdminSecretRotationMultiUser(vpc) ==
  [type |-> "AWS::SecretsManager::RotationSchedule",
   application |-> "POSTGRES_ROTATION_MULTI_USER",
   secret |-> "DbAdminSecret", target |-> "DbCluster", vpc |-> "Vpc",
   automaticallyAfterDays |-> 3, excludeCharacters |-> RotationExcludeCharacters,
   masterSecret |-> "DbRotationPasswordUserSecret",
   securityGroup |-> "RotateSecretsLambdaFunctionSg",
   vpcSubnets |-> SelectSubnets(vpc, RotationSubnetSelection)]

\* new secretsmanager.SecretRotation(this,
\*   "DbRotationPasswordUserSecretRotationSingleUser", {...})
DbRotationPasswordUserSecretRotationSingleUser(vpc) ==
  [type |-> "AWS::SecretsManager::RotationSchedule",
   application |-> "POSTGRES_ROTATION_SINGLE_USER",
   secret |-> "DbRotationPasswordUserSecret", target |-> "DbCluster", vpc |-> "Vpc",
   automaticallyAfterDays |-> 3, excludeCharacters |-> RotationExcludeCharacters,
   masterSecret |-> "",
   securityGroup |-> "RotateSecretsLambdaFunctionSg",
   vpcSubnets |-> SelectSubnets(vpc, RotationSubnetSelection)]

\* Mutant of GetSecretValueIamPolicy: the statement names every resource.
GetSecretValueIamPolicy_Wildcard ==
  [type |-> "AWS::IAM::ManagedPolicy",
   statements |-> { [effect |-> "Allow", resources |-> {"*"},
                     actions |-> {"secretsmanager:GetSecretValue",
                                  "secretsmanager:ListSecretVersionIds"}] }]

\* new iam.ManagedPolicy(this, "GetSecretValueIamPolicy", {statements})
GetSecretValueIamPolicy ==
  [type |-> "AWS::IAM::ManagedPolicy",
   statements |-> { [effect |-> "Allow",
                     resources |-> {"DbAdminSecret", "DbRotationPasswordUserSecret"},
                     actions |-> {"secretsmanager:GetSecretValue",
                                  "secretsmanager:ListSecretVersionIds"}] }]

\* new iam.Role(this, "DbClientIamRole", {assumedBy, managedPolicies})
DbClientIamRole ==
  [type |-> "AWS::IAM::Role", assumedBy |-> "ec2.amazonaws.com",
   managedPolicies |-> <<"AmazonSSMManagedInstanceCore", "GetSecretValueIamPolicy">>]

\* new ec2.Instance(this, "DbClient", {...}); the boot script's text is added
\* to the user data after the shebang.
DbClient(vpc, userDataParameter) ==
  [type |-> "AWS::EC2::Instance", instanceType |-> "t3.micro",
   machineImage |-> "latestAmazonLinux2", vpc |-> "Vpc",
   blockDevices |-> << [deviceName |-> "/dev/xvda", sizeGiB |-> 8,
                        encrypted |-> TRUE, volumeType |-> "gp3"] >>,
   role |-> "DbClientIamRole", securityGroup |-> "DbClientSg",
   vpcSubnets |-> SelectSubnets(vpc, [onePerAz |-> FALSE, subnetType |-> "PRIVATE_WITH_NAT"]),
   userData |-> <<"#!/bin/bash", userDataParameter>>]

\* What a SecretRotation construct does to its target besides scheduling the
\* rotation: it lets its security group reach the target on the target's
\* default port, a rule added to each security group of the target.
RotationIngressRule(rotation, target) ==
  [peer |-> SgPeer(rotation.securityGroup), protocol |-> "tcp", port |-> target.port]

\* The contents of the AWS managed policy AmazonSSMManagedInstanceCore: the
\* systems-management agent's actions, none of them on secrets.
AmazonSSMManagedInstanceCore ==
  { [effect |-> "Allow", resources |-> {"*"},
     actions |-> {"ssm:UpdateInstanceInformation", "ssmmessages:OpenDataChannel",
                  "ec2messages:GetMessages"}] }

\* The constructs of DatabaseStack, in the order the constructor creates
\* them, given the network handle props.vpc and the text of the boot script.
DatabaseStackConstructs(vpc, userDataParameter) ==
  LET multi == DbAdminSecretRotationMultiUser(vpc)
      single == DbRotationPasswordUserSecretRotationSingleUser(vpc)
  IN ("DbClientSg" :> DbClientSg)
     @@ ("RotateSecretsLambdaFunctionSg" :> RotateSecretsLambdaFunctionSg)
     @@ ("DbSg" :> DbSg)
     @@ ("DbAdminSecret" :> DbAdminSecret)
     @@ ("DbRotationPasswordUserSecret" :> DbRotationPasswordUserSecret)
     @@ ("DbClusterParameterGroup" :> DbClusterParameterGroup)
     @@ ("DbParameterGroup" :> DbParameterGroup)
     @@ ("SubnetGroup" :> SubnetGroup(vpc))
     @@ ("DbCluster" :> DbCluster)
     @@ ("DbAdminSecretRotationMultiUser" :> multi)
     @@ ("DbRotationPasswordUserSecretRotationSingleUser" :> single)
     @@ ("DbSgIngressFromRotation" :>
           [type |-> "AWS::EC2::SecurityGroupIngress", group |-> "DbSg",
            rules |-> {RotationIngressRule(multi, DbCluster),
                       RotationIngressRule(single, DbCluster)}])
     @@ ("GetSecretValueIamPolicy" :> GetSecretValueIamPolicy)
     @@ ("DbClientIamRole" :> DbClientIamRole)
     @@ ("DbClient" :> DbClient(vpc, userDataParameter))

Stacks == {"VpcStack", "DatabaseStack"}

RotationJobs ==
  {"DbAdminSecretRotationMultiUser", "DbRotationPasswordUserSecretRotationSingleUser"}

Secrets == {"DbAdminSecret", "DbRotationPasswordUserSecret"}

DatabaseStackResources ==
  {"DbClientSg", "RotateSecretsLambdaFunctionSg", "DbSg", "DbAdminSecret",
   "DbRotationPasswordUserSecret", "DbClusterParameterGroup", "DbParameterGroup",
   "SubnetGroup", "DbCluster", "DbAdminSecretRotationMultiUser",
   "DbRotationPasswordUserSecretRotationSingleUser", "DbSgIngressFromRotation",
   "GetSecretValueIamPolicy", "DbClientIamRole", "DbClient"}

Resources == {"Vpc"} \cup DatabaseStackResources

\* The stack whose constructor creates the construct.
StackOf(r) == IF r = "Vpc" THEN "VpcStack" ELSE "DatabaseStack"

\* Mutant of ConstructRefs: the rotation constructs are given no secret and
\* no target, and the instance no role.
ConstructRefs_Loose(r) ==
  CASE r \in {"DbClientSg", "RotateSecretsLambdaFunctionSg", "SubnetGroup"} -> {"Vpc"}
    [] r = "DbSg" -> {"Vpc", "RotateSecretsLambdaFunctionSg", "DbClientSg"}
    [] r = "DbCluster" -> {"Vpc", "DbParameterGroup", "DbSg", "DbAdminSecret",
                           "DbClusterParameterGroup", "SubnetGroup"}
    [] r \in RotationJobs -> {"Vpc", "RotateSecretsLambdaFunctionSg"}
    [] r = "DbSgIngressFromRotation" -> {"DbSg", "RotateSecretsLambdaFunctionSg", "DbCluster"}
    [] r = "GetSecretValueIamPolicy" -> {"DbAdminSecret", "DbRotationPasswordUserSecret"}
    [] r = "DbClientIamRole" -> {"GetSecretValueIamPolicy"}
    [] r = "DbClient" -> {"Vpc", "DbClientSg"}
    [] OTHER -> {}

\* The constructs whose handles a construct is given in its props.
ConstructRefs(r) ==
  CASE r \in {"DbClientSg", "RotateSecretsLambdaFunctionSg", "SubnetGroup"} -> {"Vpc"}
    [] r = "DbSg" -> {"Vpc", "RotateSecretsLambdaFunctionSg", "DbClientSg"}
    [] r = "DbCluster" -> {"Vpc", "DbParameterGroup", "DbSg", "DbAdminSecret",
                           "DbClusterParameterGroup", "SubnetGroup"}
    [] r = "DbAdminSecretRotationMultiUser" ->
         {"DbAdminSecret", "DbCluster", "Vpc", "DbRotationPasswordUserSecret",
          "RotateSecretsLambdaFunctionSg"}
    [] r = "DbRotationPasswordUserSecretRotationSingleUser" ->
         {"DbRotationPasswordUserSecret", "DbCluster", "Vpc",
          "RotateSecretsLambdaFunctionSg"}
    [] r = "DbSgIngressFromRotation" -> {"DbSg", "RotateSecretsLambdaFunctionSg", "DbCluster"}
    [] r = "GetSecretValueIamPolicy" -> {"DbAdminSecret", "DbRotationPasswordUserSecret"}
    [] r = "DbClientIamRole" -> {"GetSecretValueIamPolicy"}
    [] r = "DbClient" -> {"Vpc", "DbClientIamRole", "DbClientSg"}
    [] OTHER -> {}

ResourcesOf(s) == {r \in Resources : StackOf(r) = s}

\* A stack depends on the stacks whose constructs its own constructs are
\* given: DatabaseStack is passed vpcStack.vpc.
StackDependencies(s) ==
  {StackOf(x) : x \in UNION {ConstructRefs(r) : r \in ResourcesOf(s)}} \ {s}

\* What must exist before a unit is provisioned: for a stack, every stack it
\* depends on with all its resources; for a resource, its stack and the
\* resources it references.
DependsOn(u) ==
  IF u \in Stacks
  THEN UNION {{t} \cup ResourcesOf(t) : t \in StackDependencies(u)}
  ELSE {StackOf(u)} \cup ConstructRefs(u)

\* The units reachable from u along DependsOn, in at most n steps.
RECURSIVE ReachableFrom(_, _)
ReachableFrom(us, n) ==
  IF n = 0 THEN us
  ELSE ReachableFrom(us \cup UNION {DependsOn(u) : u \in us}, n - 1)

Acyclic ==
  \A u \in Stacks \cup Resources :
     u \notin ReachableFrom(DependsOn(u), Cardinality(Stacks \cup Resources))

\* The passwords the provider's generator can return under an exclusion.
GenerateRandomPassword(excludeCharacters) ==
  {p \in [1..PwLen -> Alphabet] : \A i \in 1..PwLen : p[i] \notin Range(excludeCharacters)}

\* The multi-user strategy alternates between the user and its clone.
AlternateUser(u) ==
  CASE u = "postgresAdmin" -> "postgresAdmin_clone"
    [] u = "postgresAdmin_clone" -> "postgresAdmin"
    [] u = "rotationPasswordUser" -> "rotationPasswordUser_clone"
    [] OTHER -> "rotationPasswordUser"

(***************************************************************************)
(* bin/database.ts                                                         *)
(***************************************************************************)
\* new VpcStack(app, "VpcStack", {terminationProtection: true})
VpcStackProps == [terminationProtection |-> TRUE]

\* Mutant of DatabaseStackProps: the stack is created without the safeguard.
DatabaseStackProps_Unprotected == [vpc |-> "Vpc", terminationProtection |-> FALSE]

\* new DatabaseStack(app, "DatabaseStack", {vpc: vpcStack.vpc,
\*   terminationProtection: true})
DatabaseStackProps == [vpc |-> "Vpc", terminationProtection |-> TRUE]

\* cdk.Tags.of(stack).add("Environment", "Production")
EnvironmentTag == <<"Environment", "Production">>

\* The boot script file ./src/ec2/user_data_amazon_linux2.sh: absent, or one
\* of two texts.
BootFiles == {"absent", "script v1", "script v2"}

NoOp == [op |-> "none", target |-> "", arg |-> "", result |-> ""]

Init ==
  /\ pc = "idle"
  /\ app = <<>>
  /\ bootFile \in BootFiles
  /\ cloud = <<>>
  /\ changeSet = {}
  /\ secretValue = <<>>
  /\ rotated = {}
  /\ destroyed = {}
  /\ lastOp = NoOp

\* f without the keys in ks.
Without(f, ks) == [x \in (DOMAIN f) \ ks |-> f[x]]

(***************************************************************************)
(* The app run: bin/database.ts from top to bottom.                        *)
(***************************************************************************)
\* No run of the app is in progress: none was started, the last one was
\* deployed, or it failed in a constructor.
Stopped == {"idle", "failed in VpcStack", "failed in DatabaseStack"}

\* new VpcStack(app, "VpcStack", {...}): the stack and the VPC its
\* constructor creates.
NewVpcStack ==
  ("VpcStack" :> [type |-> "Stack", tags |-> {},
                  terminationProtection |-> VpcStackProps.terminationProtection])
  @@ ("Vpc" :> NewVpc)

\* new DatabaseStack(app, "DatabaseStack", {vpc: vpcStack.vpc, ...}): the
\* stack and the constructs its constructor creates from the network handle
\* and the boot script's text.
NewDatabaseStack(vpcStack, userDataParameter) ==
  ("DatabaseStack" :> [type |-> "Stack", tags |-> {},
                       terminationProtection |-> DatabaseStackProps.terminationProtection])
  @@ DatabaseStackConstructs(vpcStack[DatabaseStackProps.vpc], userDataParameter)

\* The two cdk.Tags.of(...).add(...) calls.
AddTags(tree) ==
  [tree EXCEPT !["VpcStack"].tags = @ \cup {EnvironmentTag},
               !["DatabaseStack"].tags = @ \cup {EnvironmentTag}]

\* One run of bin/database.ts, top to bottom: the VpcStack, then the
\* DatabaseStack with the VpcStack's network handle, then the tags. The run
\* fails in the VpcStack constructor when the subnets do not fit the VPC's
\* block, and in the DatabaseStack constructor when readFileSync finds no
\* boot script.
RunApp ==
  /\ pc \in Stopped
  /\ IF NewVpc.failed
     THEN pc' = "failed in VpcStack" /\ app' = <<>>
     ELSE IF bootFile = "absent"
          THEN pc' = "failed in DatabaseStack" /\ app' = <<>>
          ELSE /\ pc' = "synthesized"
               /\ app' = AddTags(NewVpcStack @@ NewDatabaseStack(NewVpcStack, bootFile))
  /\ UNCHANGED <<bootFile, cloud, changeSet, secretValue, rotated, destroyed, lastOp>>

(***************************************************************************)
(* Deployment of the synthesized app.                                      *)
(***************************************************************************)
\* The units whose declaration differs from what is provisioned.
Diff(tree, live) ==
  {u \in DOMAIN tree : u \notin DOMAIN live \/ live[u] # tree[u]}

\* The deployment starts: the change set is the diff of the run's tree
\* against what is provisioned.
Deploy ==
  /\ pc = "synthesized"
  /\ pc' = "deploying"
  /\ changeSet' = Diff(app, cloud)
  /\ lastOp' = [op |-> "Deploy", target |-> "", arg |-> "",
                result |-> IF Diff(app, cloud) = {} THEN "noDiff" ELSE "changes"]
  /\ UNCHANGED <<app, bootFile, cloud, secretValue, rotated, destroyed>>

\* A unit of the change set may be provisioned once everything it depends on
\* is provisioned and up to date.
CanProvision(u) ==
  /\ pc = "deploying"
  /\ u \in changeSet
  /\ DependsOn(u) \subseteq DOMAIN cloud
  /\ DependsOn(u) \cap changeSet = {}

\* A unit other than a secret is created or updated.
Provision(u) ==
  /\ CanProvision(u)
  /\ app[u].type # "AWS::SecretsManager::Secret"
  /\ cloud' = (u :> app[u]) @@ cloud
  /\ changeSet' = changeSet \ {u}
  /\ UNCHANGED <<pc, app, bootFile, secretValue, rotated, destroyed, lastOp>>

\* A secret is created or updated: its value is generated under the
\* declared policy, or is the declared plaintext.
ProvisionSecret(u) ==
  /\ CanProvision(u)
  /\ app[u].type = "AWS::SecretsManager::Secret"
  /\ \E pw \in (IF app[u].generate
                THEN GenerateRandomPassword(app[u].excludeCharacters)
                ELSE {app[u].password}) :
        secretValue' = (u :> [username |-> app[u].username, password |-> pw]) @@ secretValue
  /\ cloud' = (u :> app[u]) @@ cloud
  /\ changeSet' = changeSet \ {u}
  /\ UNCHANGED <<pc, app, bootFile, rotated, destroyed, lastOp>>

\* The deployment ends when nothing is left to provision.
DeployDone ==
  /\ pc = "deploying"
  /\ changeSet = {}
  /\ pc' = "idle"
  /\ UNCHANGED <<app, bootFile, cloud, changeSet, secretValue, rotated, destroyed, lastOp>>

\* The operator edits, removes or restores the boot script between runs.
EditBootFile(c) ==
  /\ pc \in Stopped
  /\ c # bootFile
  /\ bootFile' = c
  /\ UNCHANGED <<pc, app, cloud, changeSet, secretValue, rotated, destroyed, lastOp>>

(***************************************************************************)
(* Provider-side operations the declaration configures.                    *)
(***************************************************************************)
\* A rotation function can do its work when it is provisioned with its
\* secret and target, and every subnet it runs in has an outbound path to
\* the secret service that is not a public one.
CanRotate(job) ==
  /\ job \in DOMAIN cloud
  /\ cloud[job].secret \in DOMAIN secretValue
  /\ cloud[job].target \in DOMAIN cloud
  /\ cloud[job].vpcSubnets # <<>>
  /\ \A i \in DOMAIN cloud[job].vpcSubnets : cloud[job].vpcSubnets[i].route = "nat"

\* The multi-user rotation of a job's secret: with the master secret as the
\* privileged actor, the other of the two users gets a new password, and the
\* secret is switched to that user.
RotateMultiUser(job) ==
  /\ CanRotate(job)
  /\ cloud[job].application = "POSTGRES_ROTATION_MULTI_USER"
  /\ cloud[job].masterSecret \in DOMAIN secretValue
  /\ \E pw \in GenerateRandomPassword(cloud[job].excludeCharacters) :
        secretValue' = [secretValue EXCEPT ![cloud[job].secret] =
                          [username |-> AlternateUser(@.username), password |-> pw]]
  /\ rotated' = rotated \cup {job}
  /\ lastOp' = [op |-> "Rotate", target |-> job, arg |-> cloud[job].secret, result |-> "ok"]
  /\ UNCHANGED <<pc, app, bootFile, cloud, changeSet, destroyed>>

\* The single-user rotation of a job's secret: the secret's own user gets a
\* new password.
RotateSingleUser(job) ==
  /\ CanRotate(job)
  /\ cloud[job].application = "POSTGRES_ROTATION_SINGLE_USER"
  /\ \E pw \in GenerateRandomPassword(cloud[job].excludeCharacters) :
        secretValue' = [secretValue EXCEPT ![cloud[job].secret].password = pw]
  /\ rotated' = rotated \cup {job}
  /\ lastOp' = [op |-> "Rotate", target |-> job, arg |-> cloud[job].secret, result |-> "ok"]
  /\ UNCHANGED <<pc, app, bootFile, cloud, changeSet, destroyed>>

\* The principals that may ask to assume the role.
Principals == {"ec2.amazonaws.com", "lambda.amazonaws.com"}

\* The requests made with the role's credentials: an action on a resource.
RequestActions ==
  {"secretsmanager:GetSecretValue", "secretsmanager:ListSecretVersionIds",
   "secretsmanager:PutSecretValue", "ssm:UpdateInstanceInformation"}

RequestResources == Secrets \cup {"OtherSecret"}

\* The statements of a policy attached to a role.
PolicyStatements(policy) ==
  IF policy = "AmazonSSMManagedInstanceCore"
  THEN AmazonSSMManagedInstanceCore
  ELSE IF policy \in DOMAIN cloud THEN cloud[policy].statements ELSE {}

\* Whether some statement of the role's policies allows the request.
Allowed(role, action, resource) ==
  \E i \in DOMAIN cloud[role].managedPolicies :
    \E st \in PolicyStatements(cloud[role].managedPolicies[i]) :
      /\ st.effect = "Allow"
      /\ action \in st.actions
      /\ resource \in st.resources \/ "*" \in st.resources

\* A principal asks to assume DbClientIamRole.
AssumeRole(principal) ==
  /\ "DbClientIamRole" \in DOMAIN cloud
  /\ lastOp' = [op |-> "AssumeRole", target |-> "DbClientIamRole", arg |-> principal,
                result |-> IF principal = cloud["DbClientIamRole"].assumedBy
                           THEN "allow" ELSE "deny"]
  /\ UNCHANGED <<pc, app, bootFile, cloud, changeSet, secretValue, rotated, destroyed>>

\* A request is made with the credentials of DbClientIamRole.
RoleRequest(action, resource) ==
  /\ "DbClientIamRole" \in DOMAIN cloud
  /\ lastOp' = [op |-> "RoleRequest", target |-> resource, arg |-> action,
                result |-> IF Allowed("DbClientIamRole", action, resource)
                           THEN "allow" ELSE "deny"]
  /\ UNCHANGED <<pc, app, bootFile, cloud, changeSet, secretValue, rotated, destroyed>>

\* Whether the provider refuses to delete the unit.
Safeguarded(u) ==
  IF u \in Stacks THEN cloud[u].terminationProtection
  ELSE IF u = "DbCluster" THEN cloud[u].deletionProtection ELSE FALSE

\* Someone asks to delete a stack. With the safeguard on, the request is
\* refused before anything is touched; otherwise the stack's resources are
\* deleted, except those with a safeguard of their own, and the stack goes
\* when none is left.
DeleteStack(s) ==
  /\ pc = "idle"
  /\ s \in DOMAIN cloud
  /\ IF Safeguarded(s)
     THEN /\ lastOp' = [op |-> "DeleteStack", target |-> s, arg |-> "", result |-> "rejected"]
          /\ UNCHANGED <<cloud, secretValue, destroyed>>
     ELSE LET kept == {r \in ResourcesOf(s) \cap DOMAIN cloud : Safeguarded(r)}
              gone == ((ResourcesOf(s) \cap DOMAIN cloud) \ kept)
                      \cup (IF kept = {} THEN {s} ELSE {})
          IN /\ lastOp' = [op |-> "DeleteStack", target |-> s, arg |-> "",
                           result |-> IF kept = {} THEN "deleted" ELSE "deleteFailed"]
             /\ cloud' = Without(cloud, gone)
             /\ secretValue' = Without(secretValue, gone)
             /\ destroyed' = destroyed \cup gone
  /\ UNCHANGED <<pc, app, bootFile, changeSet, rotated>>

\* Someone asks the database service to delete the cluster.
DeleteDBCluster ==
  /\ pc = "idle"
  /\ "DbCluster" \in DOMAIN cloud
  /\ IF Safeguarded("DbCluster")
     THEN /\ lastOp' = [op |-> "DeleteDBCluster", target |-> "DbCluster", arg |-> "",
                        result |-> "rejected"]
          /\ UNCHANGED <<cloud, destroyed>>
     ELSE /\ lastOp' = [op |-> "DeleteDBCluster", target |-> "DbCluster", arg |-> "",
                        result |-> "deleted"]
          /\ cloud' = Without(cloud, {"DbCluster"})
          /\ destroyed' = destroyed \cup {"DbCluster"}
  /\ UNCHANGED <<pc, app, bootFile, changeSet, secretValue, rotated>>

Next ==
  \/ RunApp
  \/ Deploy
  \/ \E u \in Stacks \cup Resources : Provision(u)
  \/ \E u \in Secrets : ProvisionSecret(u)
  \/ DeployDone
  \/ \E c \in BootFiles : EditBootFile(c)
  \/ \E job \in RotationJobs : RotateMultiUser(job)
  \/ \E job \in RotationJobs : RotateSingleUser(job)
  \/ \E principal \in Principals : AssumeRole(principal)
  \/ \E action \in RequestActions : \E resource \in RequestResources :
        RoleRequest(action, resource)
  \/ \E s \in Stacks : DeleteStack(s)
  \/ DeleteDBCluster

Spec == Init /\ [][Next]_vars

\* The single-user rotation's schedule keeps firing (automaticallyAfter: 3
\* days): when the rotation can run, it does.
FairSpec ==
  /\ Spec
  /\ WF_vars(\E job \in RotationJobs : RotateSingleUser(job))

(***************************************************************************)
(* Properties.                                                             *)
(***************************************************************************)
AllUnits == Stacks \cup Resources

FullyProvisioned == DOMAIN cloud = AllUnits

\* The inbound rules of a security group in a tree: its own and those of
\* the separate ingress resources that name it.
IngressRulesOf(tree, sg) ==
  (IF sg \in DOMAIN tree THEN tree[sg].ingress ELSE {})
  \cup UNION { IF tree[r].type = "AWS::EC2::SecurityGroupIngress"
               THEN (IF tree[r].group = sg THEN tree[r].rules ELSE {})
               ELSE {} : r \in DOMAIN tree }

\* C1, for one tree (the construct tree or the provisioned one).
SubnetGroupIsolated(tree) ==
  "SubnetGroup" \in DOMAIN tree =>
    LET g == tree["SubnetGroup"].vpcSubnets
    IN /\ g # <<>>
       /\ \A i \in DOMAIN g :
            /\ g[i] \in Range(tree["Vpc"].subnets)
            /\ g[i].subnetType = "PRIVATE_ISOLATED"
            /\ g[i].name = "Isolate"
       /\ \A i, j \in DOMAIN g : i # j => g[i].availabilityZone # g[j].availabilityZone
       /\ "DbCluster" \in DOMAIN tree => tree["DbCluster"].subnetGroup = "SubnetGroup"

\* C1: every subnet of the database cluster's subnet group is a subnet of the
\* Isolate tier (PRIVATE_ISOLATED) of the VPC, at most one per zone, and the
\* cluster uses that group; no Public or PRIVATE_WITH_NAT subnet is a member.
C1_SubnetGroupIsolated == SubnetGroupIsolated(app) /\ SubnetGroupIsolated(cloud)

\* C1 witness: the cluster is provisioned on a group of one isolated subnet
\* in each of the two zones.
C1_Witness ==
  /\ "DbCluster" \in DOMAIN cloud
  /\ Len(cloud["SubnetGroup"].vpcSubnets) = 2
  /\ cloud["SubnetGroup"].vpcSubnets[1].subnetType = "PRIVATE_ISOLATED"

DbSgSources == {SgPeer("DbClientSg"), SgPeer("RotateSecretsLambdaFunctionSg")}

\* C2, for one tree.
IngressRestricted(tree) ==
  /\ \A rule \in IngressRulesOf(tree, "DbSg") :
       rule.peer \in DbSgSources /\ rule.protocol = "tcp" /\ rule.port = 5432
  /\ \A sg \in {"DbSg", "DbClientSg", "RotateSecretsLambdaFunctionSg"} :
       \A rule \in IngressRulesOf(tree, sg) : rule.peer.kind = "securityGroup"

\* C2: every inbound rule of DbSg, those added for the two rotations
\* included, has DbClientSg or RotateSecretsLambdaFunctionSg as its source and
\* allows TCP port 5432 only; no inbound rule of the three security groups
\* has an any-address source.
C2_IngressRestricted == IngressRestricted(app) /\ IngressRestricted(cloud)

\* C2 witness: DbSg is provisioned with its rules and the rule the rotations
\* add; the rules of DbSg are the two allowed sources on 5432.
C2_Witness ==
  /\ "DbSgIngressFromRotation" \in DOMAIN cloud
  /\ cloud["DbSgIngressFromRotation"].rules # {}
  /\ {rule.peer : rule \in IngressRulesOf(cloud, "DbSg")} = DbSgSources

\* C3: the dependency graph is acyclic; a construct is declared, and a unit
\* provisioned, only when everything it references is; the VPC exists before
\* any DatabaseStack resource, both secrets and the cluster before either
\* rotation job, and the role before the client instance; nothing is
\* provisioned before the run's tree is complete.
C3_DependencyOrder ==
  /\ Acyclic
  /\ \A u \in DOMAIN app \cap Resources : ConstructRefs(u) \subseteq DOMAIN app
  /\ \A u \in DOMAIN cloud : DependsOn(u) \subseteq DOMAIN cloud
  /\ (DOMAIN cloud \cap ({"DatabaseStack"} \cup DatabaseStackResources) # {}) =>
        {"VpcStack", "Vpc"} \subseteq DOMAIN cloud
  /\ (DOMAIN cloud \cap RotationJobs # {}) =>
        (Secrets \cup {"DbCluster"}) \subseteq DOMAIN cloud
  /\ "DbClient" \in DOMAIN cloud => "DbClientIamRole" \in DOMAIN cloud
  /\ changeSet # {} => pc = "deploying" /\ DOMAIN app = AllUnits

\* C3 witness: a deployment in progress in which the cluster exists and
\* neither rotation job does yet.
C3_Witness ==
  /\ pc = "deploying"
  /\ "DbCluster" \in DOMAIN cloud
  /\ RotationJobs \subseteq changeSet

ProtectedUnits == {"VpcStack", "DatabaseStack", "DbCluster"}

DeclaredSafeguard(u) ==
  IF u \in Stacks THEN app[u].terminationProtection ELSE app[u].deletionProtection

\* C4: the deletion safeguard is on for VpcStack, DatabaseStack and DbCluster
\* wherever they are declared or provisioned; every attempt to delete one of
\* them is rejected, and no unit is ever destroyed.
C4_DeletionSafeguards ==
  /\ \A u \in ProtectedUnits :
       /\ u \in DOMAIN app => DeclaredSafeguard(u)
       /\ u \in DOMAIN cloud => Safeguarded(u)
  /\ lastOp.op \in {"DeleteStack", "DeleteDBCluster"} => lastOp.result = "rejected"
  /\ destroyed = {}
  /\ pc = "idle" => (cloud = <<>> \/ FullyProvisioned)

\* C4 witness: a delete of the DatabaseStack was just attempted and rejected
\* with everything still provisioned.
C4_Witness ==
  /\ lastOp = [op |-> "DeleteStack", target |-> "DatabaseStack", arg |-> "",
               result |-> "rejected"]
  /\ FullyProvisioned

\* The run's inputs are those of the deployment that provisioned the client
\* instance: the same boot script text.
InputsUnchanged ==
  /\ "DbClient" \in DOMAIN app
  /\ "DbClient" \in DOMAIN cloud
  /\ app["DbClient"].userData = cloud["DbClient"].userData

\* C5: a run of the app over a fully provisioned deployment, with the inputs
\* that deployment had, declares the same units with the same attributes:
\* the diff is empty and the deployment has nothing to provision, whatever
\* rotations have happened.
C5_IdempotentDeclaration ==
  (pc \in {"synthesized", "deploying"} /\ FullyProvisioned /\ InputsUnchanged) =>
     /\ DOMAIN app = DOMAIN cloud
     /\ \A u \in DOMAIN app : app[u] = cloud[u]
     /\ Diff(app, cloud) = {}
     /\ pc = "deploying" => changeSet = {}

\* C5 witness: after both rotations have run, a re-run of the app with the
\* same boot script reaches its deployment with an empty diff.
C5_Witness ==
  /\ pc = "deploying"
  /\ lastOp.op = "Deploy" /\ lastOp.result = "noDiff"
  /\ rotated = RotationJobs
  /\ secretValue["DbRotationPasswordUserSecret"].password # BootstrapPassword

Disjoint(s, t) ==
  \/ s.cidrStart + NetSize(s.cidrMask) <= t.cidrStart
  \/ t.cidrStart + NetSize(t.cidrMask) <= s.cidrStart

\* C6, for one VPC construct.
VpcSubnetsFit(v) ==
  /\ ~v.failed
  /\ Len(v.subnets) = 6
  /\ {<<v.subnets[i].name, v.subnets[i].availabilityZone>> : i \in DOMAIN v.subnets}
       = {"Public", "Private", "Isolate"} \X {"az1", "az2"}
  /\ \A i \in DOMAIN v.subnets :
       /\ v.subnets[i].cidrMask = 28
       /\ NetSize(v.subnets[i].cidrMask) = 16
       /\ v.subnets[i].cidrStart >= IpToNum(<<10, 10, 0, 0>>)
       /\ v.subnets[i].cidrStart + 15 <= IpToNum(<<10, 10, 0, 255>>)
  /\ \A i, j \in DOMAIN v.subnets : i # j => Disjoint(v.subnets[i], v.subnets[j])

\* C6: with two zones and the block 10.10.0.0/24 the VPC has exactly six
\* subnets, one per tier and zone, each a /28 of 16 addresses, pairwise
\* disjoint and inside the block; the allocation does not fail.
C6_SubnetAllocation ==
  /\ "Vpc" \in DOMAIN app => VpcSubnetsFit(app["Vpc"])
  /\ "Vpc" \in DOMAIN cloud => VpcSubnetsFit(cloud["Vpc"])
  /\ pc \in {"synthesized", "deploying"} => "Vpc" \in DOMAIN app
  /\ pc # "failed in VpcStack"

\* C6 witness: the VPC is provisioned with its six subnets.
C6_Witness ==
  /\ "Vpc" \in DOMAIN cloud
  /\ Len(cloud["Vpc"].subnets) = 6
  /\ cloud["Vpc"].subnets[6].cidrStart = IpToNum(<<10, 10, 0, 80>>)

NoExcludedCharacter(pw) == \A i \in DOMAIN pw : pw[i] \notin {":", "@", "/", "\"", " ", "'"}

\* A secret's current value was generated: by its generation policy, or by
\* a rotation of it since.
IsGenerated(s) ==
  \/ cloud[s].generate
  \/ \E job \in rotated : job \in DOMAIN cloud /\ cloud[job].secret = s

\* C7: no generated credential value contains a colon, at-sign, slash,
\* double quote, space or single quote: not the generated password of
\* DbAdminSecret, nor any password a rotation of either secret produced.
C7_NoExcludedCharacters ==
  \A s \in DOMAIN secretValue :
     IsGenerated(s) => NoExcludedCharacter(secretValue[s].password)

\* C7 witness: both secrets hold a password that a rotation generated.
C7_Witness ==
  /\ rotated = RotationJobs
  /\ \A s \in Secrets : s \in DOMAIN secretValue /\ Len(secretValue[s].password) = PwLen

\* C8, for one tree.
RotationsInNatTier(tree) ==
  /\ \A job \in RotationJobs \cap DOMAIN tree :
       LET g == tree[job].vpcSubnets
       IN /\ g # <<>>
          /\ \A i \in DOMAIN g :
               /\ g[i] \in Range(tree["Vpc"].subnets)
               /\ g[i].subnetType = "PRIVATE_WITH_NAT"
               /\ g[i].name = "Private"
               /\ g[i].route = "nat"
  /\ "SubnetGroup" \in DOMAIN tree =>
       \A i \in DOMAIN tree["SubnetGroup"].vpcSubnets :
          tree["SubnetGroup"].vpcSubnets[i].route = "none"

\* C8: both rotation jobs run only in subnets of the Private tier
\* (PRIVATE_WITH_NAT), which route out through the NAT gateway and are not
\* public, never in a Public or Isolate subnet; the database's subnets have
\* no route out.
C8_RotationsInNatTier == RotationsInNatTier(app) /\ RotationsInNatTier(cloud)

\* C8 witness: the multi-user rotation, provisioned in the two Private
\* subnets, has just run.
C8_Witness ==
  /\ lastOp.op = "Rotate" /\ lastOp.target = "DbAdminSecretRotationMultiUser"
  /\ Len(cloud["DbAdminSecretRotationMultiUser"].vpcSubnets) = 2

SecretActions == {a \in RequestActions : a # "ssm:UpdateInstanceInformation"}

SecretReadActions == {"secretsmanager:GetSecretValue", "secretsmanager:ListSecretVersionIds"}

\* C9: DbClientIamRole can be assumed by ec2.amazonaws.com only; a secret
\* action is allowed to it exactly when it is one of the two read actions on
\* DbAdminSecret or DbRotationPasswordUserSecret; the policy that grants them
\* names no wildcard resource.
C9_RoleReadsOnlyItsSecrets ==
  /\ "DbClientIamRole" \in DOMAIN cloud =>
       /\ cloud["DbClientIamRole"].assumedBy = "ec2.amazonaws.com"
       /\ \A a \in SecretActions : \A r \in RequestResources :
            Allowed("DbClientIamRole", a, r) <=> (a \in SecretReadActions /\ r \in Secrets)
  /\ "GetSecretValueIamPolicy" \in DOMAIN cloud =>
       \A st \in cloud["GetSecretValueIamPolicy"].statements : "*" \notin st.resources
  /\ (lastOp.op = "AssumeRole" /\ lastOp.result = "allow") => lastOp.arg = "ec2.amazonaws.com"
  /\ (lastOp.op = "RoleRequest" /\ lastOp.result = "allow" /\ lastOp.arg \in SecretActions) =>
       (lastOp.target \in Secrets /\ lastOp.arg \in SecretReadActions)

\* C9 witness: a request to read another secret with the role's credentials
\* was just denied.
C9_Witness ==
  lastOp = [op |-> "RoleRequest", target |-> "OtherSecret",
            arg |-> "secretsmanager:GetSecretValue", result |-> "deny"]

SingleUserJob == "DbRotationPasswordUserSecretRotationSingleUser"

RotationUserSecretReplaced ==
  /\ "DbRotationPasswordUserSecret" \in DOMAIN secretValue
  /\ secretValue["DbRotationPasswordUserSecret"].password # BootstrapPassword

\* C10: DbRotationPasswordUserSecret holds the bootstrap user and password
\* from its creation until its single-user rotation first completes; only
\* that rotation ever changes its value (the multi-user rotation does not);
\* and once the rotation can run, the bootstrap value is eventually replaced.
C10_BootstrapUntilRotated ==
  /\ [](("DbRotationPasswordUserSecret" \in DOMAIN secretValue /\ SingleUserJob \notin rotated)
          => secretValue["DbRotationPasswordUserSecret"] =
               [username |-> "rotationPasswordUser", password |-> BootstrapPassword])
  /\ [][("DbRotationPasswordUserSecret" \in DOMAIN secretValue
          /\ "DbRotationPasswordUserSecret" \in DOMAIN secretValue'
          /\ secretValue'["DbRotationPasswordUserSecret"]
               # secretValue["DbRotationPasswordUserSecret"])
        => (lastOp'.op = "Rotate" /\ lastOp'.target = SingleUserJob)]_vars
  /\ (CanRotate(SingleUserJob) ~> RotationUserSecretReplaced)

\* C10 witness: the multi-user rotation has run, the single-user rotation
\* has not, and the secret still holds the bootstrap password.
C10_Witness ==
  /\ rotated = {"DbAdminSecretRotationMultiUser"}
  /\ secretValue["DbRotationPasswordUserSecret"].password = BootstrapPassword
  /\ secretValue["DbAdminSecret"].username = "postgresAdmin_clone"

====
